---- MODULE Spec2Model ----
(***************************************************************************)
(* A model of the praw_wrapper package: the Reddit facade of               *)
(* praw_wrapper/reddit.py (rate-limit aware run_function) and of           *)
(* praw_wrapper/__init__.py (Queue, PushshiftClient, endpoint selection,   *)
(* backfill scan), the ingest store of praw_wrapper/ingest.py and the test *)
(* double of praw_wrapper/reddit_test.py.                                  *)
(***************************************************************************)
EXTENDS Integers, Sequences, FiniteSets, TLC

VARIABLES
    impl,         \* which Reddit class is running: "reddit" (reddit.py) or "package" (__init__.py)
    no_post,      \* Reddit.no_post
    op,           \* the facade operation in progress, "" when none
    stack,        \* activation records of run_function, innermost last
    ret,          \* what the last finished facade operation returned or raised
    slept,        \* seconds passed to time.sleep by the operation in progress
    calls,        \* times the operation in progress has called the wrapped function
    lib_invoked,  \* the mutating library methods invoked since construction
    list,         \* Queue.list
    set,          \* Queue.set
    max_size,     \* Queue.max_size
    puts,         \* history: every item handed to Queue.put, oldest first
    clients,      \* PushshiftClient state of the two endpoints
    client_type,  \* Reddit.pushshift_client_type
    now,          \* datetime.utcnow(), in seconds
    selected,     \* what the last get_pushshift_client call returned
    mirror,       \* the comments the search mirror holds for the keyword
    scan,         \* the get_keyword_comments call in progress or last finished
    lib_outcome,  \* how the library call of the facade operation just finished went, "" when unknown
    store,        \* IngestDatabase: its tables and the objects pending in its session
    store_ret,    \* what the last IngestDatabase operation returned or raised
    handed,       \* history: per client name, the clients get_or_add_client has returned
    double,       \* the test double of reddit_test.py: Reddit and the objects it was given
    double_ret    \* what the last operation of the test double was given and returned

vars == <<impl, no_post, op, stack, ret, slept, calls, lib_invoked,
          list, set, max_size, puts, clients, client_type, now, selected,
          mirror, scan, lib_outcome, store, store_ret, handed, double, double_ret>>

adapter_vars == <<impl, no_post, op, stack, ret, slept, calls, lib_invoked>>
queue_vars == <<list, set, max_size, puts>>
pushshift_vars == <<clients, client_type, now, selected>>
scan_vars == <<mirror, scan>>
store_vars == <<store, store_ret, handed>>
double_vars == <<double, double_ret>>
far_vars == <<scan_vars, store_vars, double_vars>>
other_vars == <<far_vars, lib_outcome>>

\* Python's None and a present value
None == <<>>
Some(x) == <<x>>

(***************************************************************************)
(* Bounds                                                                  *)
(***************************************************************************)
\* the largest retry budget a caller hands to reply_message / send_message
MaxRetrySeconds == 45
\* the largest Queue.max_size tried (the package builds Queue(100))
MaxCapacity == 3
\* the number of Queue.put calls followed
MaxPuts == 6
\* the item identifiers are 1..MaxItem
MaxItem == 4
\* the clock is followed for this many steps
MaxTicks == 1
\* failed requests in a row followed per endpoint
MaxFailures == 2
\* the page sizes of the backfill scan, standing for the 100 comments of the
\* first page and the 1000 of the later ones
FirstPageLimit == 2
NextPageLimit == 3
\* failed requests in a row followed per endpoint during backfill scans
MaxScanFailures == 6
\* the number of comments a caller marks as processed
MaxMarked == 2
\* the number of clients followed, rows and pending together
MaxRows == 3
\* the number of objects pending in the session of the store
MaxPending == 2
\* the number of replies made through the test double
MaxReplies == 1
\* the length of the test double's self_comments followed
MaxSelfComments == 1

(***************************************************************************)
(* Program constants                                                       *)
(***************************************************************************)
\* PushshiftClient.failures_threshold as first set and as reset by a 200
InitialThreshold == 5
\* the lag, in seconds, under which an endpoint is taken once one has failed
FailedLagLimit == 600
\* the lag, in seconds, under which beta is taken when neither has failed
BetaLagLimit == 120
\* a lag check older than this many seconds is run again
RecheckSeconds == 120

(***************************************************************************)
(* ReturnType                                                              *)
(***************************************************************************)
ReturnTypePackage ==
    <<"SUCCESS", "INVALID_USER", "USER_DOESNT_EXIST", "FORBIDDEN", "THREAD_LOCKED",
      "DELETED_COMMENT", "QUARANTINED", "RATELIMIT", "THREAD_REPLIED",
      "NOTHING_RETURNED", "SUBREDDIT_NOT_ENABLED", "SUBMISSION_NOT_PROCESSED",
      "NOT_WHITELISTED_BY_USER_MESSAGE", "PM_MODERATOR_RESTRICTION",
      "SUBREDDIT_OUTBOUND_LINKING_DISALLOWED", "SUBREDDIT_LINKING_DISALLOWED",
      "COMMENT_UNREPLIABLE", "SOMETHING_IS_BROKEN">>

ReturnTypeReddit ==
    ReturnTypePackage \o <<"COMMENT_GUIDANCE_VALIDATION_FAILED">>

ReturnType(i) ==
    IF i = "reddit" THEN ReturnTypeReddit ELSE ReturnTypePackage

ReturnTypeNames(i) ==
    {ReturnType(i)[k] : k \in 1..Len(ReturnType(i))}

(***************************************************************************)
(* Error messages, as the words the rate-limit pattern reads               *)
(***************************************************************************)
\* a message is a sequence of space separated tokens: a run of digits or a word
Word(w) == [digits |-> <<>>, word |-> w]
Num(ds) == [digits |-> ds, word |-> ""]

\* (milliseconds?|seconds?|minutes?)
UnitWords ==
    {"millisecond", "milliseconds", "second", "seconds", "minute", "minutes"}

\* [0-9]{1,3} followed by a space takes the last three digits of a longer run
LastDigits(ds) ==
    IF Len(ds) <= 3 THEN ds ELSE SubSeq(ds, Len(ds) - 2, Len(ds))

\* int(amount_search.group(1))
RECURSIVE int(_)
int(ds) ==
    IF ds = <<>> THEN 0 ELSE 10 * int(SubSeq(ds, 1, Len(ds) - 1)) + ds[Len(ds)]

\* self.ratelimit_regex.search(message): the leftmost "<digits> <unit>"
ratelimit_regex_search(message) ==
    LET hits == {i \in 1..(Len(message) - 1) :
                    /\ message[i].digits # <<>>
                    /\ message[i + 1].word \in UnitWords}
    IN  IF hits = {} THEN None
        ELSE LET i == CHOOSE i \in hits : \A j \in hits : i <= j
             IN  Some([group1 |-> LastDigits(message[i].digits),
                       group2 |-> message[i + 1].word])

\* the wait the message states, in seconds, before any padding
WaitSeconds(match) ==
    IF match.group2 \in {"minute", "minutes"} THEN int(match.group1) * 60
    ELSE IF match.group2 \in {"millisecond", "milliseconds"} THEN 0
    ELSE int(match.group1)

\* Reddit.get_ratelimit_seconds: the first RATELIMIT item decides
get_ratelimit_seconds(items) ==
    LET at == {i \in 1..Len(items) : items[i].error_type = "RATELIMIT"}
    IN  IF at = {} THEN None
        ELSE LET i == CHOOSE i \in at : \A j \in at : i <= j
                 amount_search == ratelimit_regex_search(items[i].message)
             IN  IF amount_search = None THEN None
                 ELSE Some(WaitSeconds(amount_search[1]) + 1)

(***************************************************************************)
(* What the wrapped library call can do                                    *)
(***************************************************************************)
Item(t, m) == [error_type |-> t, message |-> m]

MsgSeconds5 == <<Word("for"), Num(<<5>>), Word("seconds")>>
MsgSeconds20 == <<Word("break"), Word("for"), Num(<<2, 0>>), Word("seconds")>>
MsgSeconds50 == <<Word("in"), Num(<<5, 0>>), Word("seconds")>>
MsgMinute == <<Word("in"), Num(<<1>>), Word("minute")>>
MsgMillis == <<Word("for"), Num(<<3, 0, 0>>), Word("milliseconds")>>
MsgLong == <<Word("in"), Num(<<1, 0, 0, 7>>), Word("seconds")>>
MsgHours == <<Word("in"), Num(<<2>>), Word("hours")>>
MsgNoAmount == <<Word("doing"), Word("that"), Word("too"), Word("much")>>

RatelimitMessages ==
    {MsgSeconds5, MsgSeconds20, MsgSeconds50, MsgMinute, MsgMillis, MsgLong,
     MsgHours, MsgNoAmount}

ErrorItems ==
    {<<Item("RATELIMIT", m)>> : m \in RatelimitMessages}
    \cup {<<Item(t, <<Word("no")>>)>> :
            t \in {"THREAD_LOCKED", "DELETED_COMMENT", "NOT_WHITELISTED_BY_USER_MESSAGE",
                   "COMMENT_GUIDANCE_VALIDATION_FAILED", "BAD_CAPTCHA", "ratelimit"}}
    \cup {<<Item("RATELIMIT", MsgNoAmount), Item("RATELIMIT", MsgSeconds5)>>,
          <<Item("RATELIMIT", MsgSeconds20), Item("RATELIMIT", MsgSeconds5)>>,
          <<Item("THREAD_LOCKED", <<Word("no")>>), Item("RATELIMIT", MsgSeconds5)>>,
          <<Item("RATELIMIT", MsgSeconds5), Item("BAD_CAPTCHA", <<Word("no")>>)>>}

\* err.error_type: praw reads it from the first item
error_type(items) == items[1].error_type

Returns(out) == [kind |-> "returns", output |-> out, items |-> <<>>]
Raises(k, items) == [kind |-> k, output |-> None, items |-> items]

LibOutcomes ==
    {Returns(Some("t1_new")), Returns(None)}
    \cup {Raises("APIException", e) : e \in ErrorItems}
    \cup {Raises(k, <<>>) : k \in {"Forbidden", "IndexError", "ServerError"}}

RetryBudgets == {0, 12, 30, 32, MaxRetrySeconds}

(***************************************************************************)
(* Reddit.run_function                                                     *)
(***************************************************************************)
\* one activation of run_function: its arguments, its locals and where it stands
\*   pc: "call"   about to call function(*arguments)
\*       "sleep"  a rate limit fits the budget: about to time.sleep and recurse
\*       "wait"   inside the recursive run_function call
\*       "return" about to return (output, result)
\*       "raise"  an exception is leaving the activation
\*   did: what the wrapped call did, "returns" or the exception it raised
\*   slept, retry_with: what the activation passed to time.sleep and to the
\*   recursive call (None when it did neither)
Frame(fn, retry) ==
    [function |-> fn, retry_seconds |-> retry, pc |-> "call", did |-> "",
     output |-> None, result |-> None, err |-> <<>>, exc |-> "", seconds |-> None,
     slept |-> None, retry_with |-> None]

\* for return_type in ReturnType: if err.error_type == return_type.name
match_return_type(i, name) ==
    IF name \in ReturnTypeNames(i) THEN Some(name) ELSE None

\* the comparison turned round: a wait larger than the budget is slept
within_budget_reversed(seconds, retry_seconds) == seconds > retry_seconds

\* seconds < retry_seconds
within_budget(seconds, retry_seconds) == seconds < retry_seconds

\* the recursive call given the whole budget again
remaining_budget_undiminished(retry_seconds, seconds) == retry_seconds

\* the budget handed to the recursive call after sleeping
remaining_budget(retry_seconds, seconds) == retry_seconds - seconds

\* the rate-limit branch of the handler in reddit.py: seconds += 10 comes before
\* the test for None, so a wait that cannot be parsed ends in a TypeError
on_ratelimit(f, items) ==
    LET found == get_ratelimit_seconds(items)
    IN  IF found = None
        THEN [f EXCEPT !.pc = "raise", !.exc = "TypeError"]
        ELSE LET seconds == found[1] + 10
             IN  IF within_budget(seconds, f.retry_seconds)
                 THEN [f EXCEPT !.pc = "sleep", !.seconds = Some(seconds)]
                 ELSE [f EXCEPT !.pc = "return", !.seconds = Some(seconds)]

\* what both run_functions do with a call that returned, a Forbidden, an
\* IndexError and an exception they do not catch
handle_other(f, o) ==
    CASE o.kind = "returns" ->
            [f EXCEPT !.pc = "return", !.output = o.output, !.result = Some("SUCCESS")]
      [] o.kind = "Forbidden" ->
            [f EXCEPT !.pc = "return", !.result = Some("FORBIDDEN")]
      [] o.kind = "IndexError" ->
            [f EXCEPT !.pc = "return", !.result = Some("QUARANTINED")]
      [] OTHER ->
            [f EXCEPT !.pc = "raise", !.exc = o.kind]

\* the try statement of run_function in reddit.py, applied to what the wrapped
\* call did
handle_reddit(f, o) ==
    IF o.kind = "APIException"
    THEN LET result == match_return_type("reddit", error_type(o.items))
             g == [f EXCEPT !.err = o.items, !.result = result]
         IN  IF result = None
             THEN [g EXCEPT !.pc = "raise", !.exc = "APIException"]
             ELSE IF result = Some("RATELIMIT")
             THEN on_ratelimit(g, o.items)
             ELSE [g EXCEPT !.pc = "return"]
    ELSE handle_other(f, o)

\* the try statement of run_function in __init__.py, which has no retry
handle_package(f, o) ==
    IF o.kind = "APIException"
    THEN LET result == match_return_type("package", error_type(o.items))
             g == [f EXCEPT !.err = o.items, !.result = result]
         IN  IF result = None
             THEN [g EXCEPT !.pc = "raise", !.exc = "APIException"]
             ELSE [g EXCEPT !.pc = "return"]
    ELSE handle_other(f, o)

handle(i, f, o) ==
    IF i = "reddit" THEN handle_reddit(f, o) ELSE handle_package(f, o)

Top == stack[Len(stack)]
SetTop(f) == [stack EXCEPT ![Len(stack)] = f]
Pop == SubSeq(stack, 1, Len(stack) - 1)

\* PushshiftClient.__init__
NewClient ==
    [failures |-> 0, failures_threshold |-> InitialThreshold,
     latest |-> None, lag_checked |-> None]

NoRet == [op |-> "", id |-> None, value |-> None, raised |-> None]

\* the operations that end in Reddit.reply: reply itself and its two callers
ReplyOperations == {"reply", "reply_comment", "reply_submission"}

\* reply that hands run_function's pair on as it is: no output with SUCCESS
\* stays (None, SUCCESS)
op_return_unchecked(name, output, result) ==
    [op |-> name, id |-> output, value |-> result, raised |-> None]

\* what the facade operation makes of run_function's (output, result)
op_return(name, output, result) ==
    IF name \in ReplyOperations
    THEN IF output # None
         THEN [op |-> name, id |-> output, value |-> result, raised |-> None]
         ELSE IF result = Some("SUCCESS")
         THEN [op |-> name, id |-> None, value |-> Some("NOTHING_RETURNED"), raised |-> None]
         ELSE [op |-> name, id |-> None, value |-> result, raised |-> None]
    ELSE [op |-> name, id |-> None, value |-> result, raised |-> None]

\* output = function(*arguments), and the handler that catches what it raises
run_function_call ==
    /\ stack # <<>>
    /\ Top.pc = "call"
    /\ \E o \in LibOutcomes :
           stack' = SetTop(handle(impl, [Top EXCEPT !.did = o.kind], o))
    /\ calls' = calls + 1
    /\ lib_invoked' = lib_invoked \cup {Top.function}
    /\ UNCHANGED <<impl, no_post, op, ret, slept, queue_vars, pushshift_vars, other_vars>>

\* time.sleep(seconds); self.run_function(function, arguments, retry_seconds - seconds)
run_function_sleep ==
    /\ stack # <<>>
    /\ Top.pc = "sleep"
    /\ LET seconds == Top.seconds[1]
           budget == remaining_budget(Top.retry_seconds, seconds)
       IN  /\ slept' = slept + seconds
           /\ stack' = Append(SetTop([Top EXCEPT !.pc = "wait",
                                                  !.slept = Some(seconds),
                                                  !.retry_with = Some(budget)]),
                              Frame(Top.function, budget))
    /\ UNCHANGED <<impl, no_post, op, ret, calls, lib_invoked, queue_vars, pushshift_vars, other_vars>>

\* return output, result: to the activation that retried, which drops the pair,
\* or to the facade operation
run_function_return ==
    /\ stack # <<>>
    /\ Top.pc = "return"
    /\ IF Len(stack) > 1
       THEN /\ stack' = [Pop EXCEPT ![Len(stack) - 1].pc = "return"]
            /\ UNCHANGED <<op, ret>>
       ELSE /\ stack' = <<>>
            /\ ret' = op_return(op, Top.output, Top.result)
            /\ op' = ""
    /\ UNCHANGED <<impl, no_post, slept, calls, lib_invoked, queue_vars, pushshift_vars, other_vars>>

\* an exception no clause catches leaves the activation, and every one below it
run_function_raise ==
    /\ stack # <<>>
    /\ Top.pc = "raise"
    /\ IF Len(stack) > 1
       THEN /\ stack' = [Pop EXCEPT ![Len(stack) - 1].pc = "raise",
                                    ![Len(stack) - 1].exc = Top.exc]
            /\ UNCHANGED <<op, ret>>
       ELSE /\ stack' = <<>>
            /\ ret' = [op |-> op, id |-> None, value |-> None, raised |-> Some(Top.exc)]
            /\ op' = ""
    /\ UNCHANGED <<impl, no_post, slept, calls, lib_invoked, queue_vars, pushshift_vars, other_vars>>

(***************************************************************************)
(* The facade operations                                                   *)
(***************************************************************************)
\* the operation calls run_function(fn, ..., retry)
Start(name, fn, retry) ==
    /\ op' = name
    /\ stack' = <<Frame(fn, retry)>>
    /\ ret' = NoRet
    /\ slept' = 0
    /\ calls' = 0
    /\ lib_outcome' = ""
    /\ UNCHANGED <<impl, no_post, lib_invoked, queue_vars, pushshift_vars, far_vars>>

\* the operation ends without run_function
Finish(name, id, value, raised, invoked) ==
    /\ op' = ""
    /\ stack' = <<>>
    /\ ret' = [op |-> name, id |-> id, value |-> value, raised |-> raised]
    /\ slept' = 0
    /\ calls' = 0
    /\ lib_invoked' = lib_invoked \cup invoked
    /\ lib_outcome' = ""
    /\ UNCHANGED <<impl, no_post, queue_vars, pushshift_vars, far_vars>>

Idle == op = "" /\ stack = <<>>

\* the retry budgets a caller can pass: reddit.py's operations take retry_seconds
Budgets(i) == IF i = "reddit" THEN RetryBudgets ELSE {0}

\* what a library call made outside run_function can do
DirectOutcomes == {"ok", "Forbidden", "NotFound", "ServerError"}

reply_message ==
    /\ Idle
    /\ IF no_post
       THEN Finish("reply_message", None, Some("SUCCESS"), None, {})
       ELSE \E retry \in Budgets(impl) : Start("reply_message", "reply", retry)

mark_read ==
    /\ Idle
    /\ IF no_post
       THEN Finish("mark_read", None, None, None, {})
       ELSE \E o \in DirectOutcomes :
                Finish("mark_read", None, None,
                       IF o = "ok" THEN None ELSE Some(o), {"mark_read"})

\* comment: the object, an id to fetch, or the placeholder id get_comment maps to None
edit_comment ==
    /\ Idle
    /\ \E comment \in {"object", "comment_id", "xxxxxx"} :
         IF comment = "xxxxxx"
         THEN Finish("edit_comment", None, None, Some("AttributeError"), {})
         ELSE IF no_post
         THEN Finish("edit_comment", None, None, None, {})
         ELSE Start("edit_comment", "edit", 0)

\* the handler reads comment.comment_id, an attribute the library decides on
delete_comment ==
    /\ Idle
    /\ IF no_post
       THEN Finish("delete_comment", None, Some("True"), None, {})
       ELSE \/ Finish("delete_comment", None, Some("True"), None, {"delete"})
            \/ Finish("delete_comment", None, Some("False"), None, {"delete"})
            \/ Finish("delete_comment", None, None, Some("AttributeError"), {"delete"})

send_message ==
    /\ Idle
    /\ \E user_name \in {"alice", "[deleted]"} :
         IF impl = "reddit" /\ user_name = "[deleted]"
         THEN Finish("send_message", None, Some("INVALID_USER"), None, {})
         ELSE IF no_post
         THEN Finish("send_message", None, Some("SUCCESS"), None, {})
         ELSE \E retry \in Budgets(impl) : Start("send_message", "message", retry)

\* Reddit.reply, reached through reply_comment and reply_submission
reply(name) ==
    IF no_post
    THEN Finish(name, Some("xxxxxx"), Some("SUCCESS"), None, {})
    ELSE Start(name, "reply", 0)

reply_comment == Idle /\ reply("reply_comment")

\* Reddit.reply called by itself: reddit.py lets the caller pass retry_seconds
reply_retrying ==
    /\ Idle
    /\ IF no_post
       THEN Finish("reply", Some("xxxxxx"), Some("SUCCESS"), None, {})
       ELSE \E retry \in Budgets(impl) : Start("reply", "reply", retry)

reply_submission == Idle /\ reply("reply_submission")

\* the operation ends after one library call that went as o
FinishDirect(name, value, raised, invoked, o) ==
    /\ op' = ""
    /\ stack' = <<>>
    /\ ret' = [op |-> name, id |-> None, value |-> value, raised |-> raised]
    /\ slept' = 0
    /\ calls' = 0
    /\ lib_invoked' = lib_invoked \cup invoked
    /\ lib_outcome' = o
    /\ UNCHANGED <<impl, no_post, queue_vars, pushshift_vars, far_vars>>

\* how the forced fetch of subreddit_exists and redditor_exists can go
FetchOutcomes == {"ok", "NotFound", "Redirect", "Forbidden", "BadRequest", "ServerError"}

\* what an operation returns or raises, as a part of ret
Returned(value) == [value |-> Some(value), raised |-> None]
Raised(exception) == [value |-> None, raised |-> Some(exception)]

\* subreddit_exists after the fetch went as o
subreddit_exists_outcome(o) ==
    IF o \in {"Redirect", "NotFound"} THEN Returned("False")
    ELSE IF o = "Forbidden" THEN Returned("False")
    ELSE IF o = "BadRequest" THEN Returned("False")
    ELSE IF o = "ok" THEN Returned("True")
    ELSE Raised(o)

\* redditor_exists with the except clauses of subreddit_exists
redditor_exists_as_subreddit(o) ==
    IF o \in {"Redirect", "NotFound", "Forbidden", "BadRequest"} THEN Returned("False")
    ELSE IF o = "ok" THEN Returned("True")
    ELSE Raised(o)

\* redditor_exists after the fetch went as o
redditor_exists_outcome(o) ==
    IF o = "NotFound" THEN Returned("False")
    ELSE IF o = "ok" THEN Returned("True")
    ELSE Raised(o)

\* no test of no_post: the fetch is always made
subreddit_exists ==
    /\ Idle
    /\ \E o \in FetchOutcomes :
         LET r == subreddit_exists_outcome(o)
         IN  FinishDirect("subreddit_exists", r.value, r.raised, {}, o)

redditor_exists ==
    /\ Idle
    /\ \E o \in FetchOutcomes :
         LET r == redditor_exists_outcome(o)
         IN  FinishDirect("redditor_exists", r.value, r.raised, {}, o)

\* quarantine_opt_in that takes a forbidden opt-in for done
quarantine_opt_in_forbidden_is_done(i, o) ==
    IF o \in {"ok", "Forbidden"} THEN "True" ELSE "False"

\* quarantine_opt_in of implementation i after the opt-in call went as o:
\* reddit.py has an except clause for Forbidden and one for Exception,
\* __init__.py the one for Exception, and each returns False
quarantine_opt_in_outcome(i, o) ==
    IF o = "ok" THEN "True"
    ELSE IF i = "reddit" /\ o = "Forbidden" THEN "False"
    ELSE "False"

quarantine_opt_in ==
    /\ Idle
    /\ IF no_post
       THEN Finish("quarantine_opt_in", None, Some("True"), None, {})
       ELSE \E o \in DirectOutcomes :
                FinishDirect("quarantine_opt_in",
                             Some(quarantine_opt_in_outcome(impl, o)), None,
                             {"opt_in"}, o)

\* reddit.py only; no test of no_post
update_subreddit_wiki_page ==
    /\ Idle
    /\ impl = "reddit"
    /\ \E o \in DirectOutcomes :
           Finish("update_subreddit_wiki_page", None, None,
                  IF o = "ok" THEN None ELSE Some(o), {"wiki_edit"})

(***************************************************************************)
(* The facade: specification                                               *)
(***************************************************************************)
QueueIdle ==
    /\ list = <<>>
    /\ set = {}
    /\ max_size = 1
    /\ puts = <<>>

PushshiftIdle ==
    /\ clients = [PROD |-> NewClient, BETA |-> NewClient]
    /\ client_type = "PROD"
    /\ now = 0
    /\ selected = ""

AdapterIdle ==
    /\ impl = "package"
    /\ no_post = FALSE
    /\ op = ""
    /\ stack = <<>>
    /\ ret = NoRet
    /\ slept = 0
    /\ calls = 0
    /\ lib_invoked = {}

\* no get_keyword_comments call made yet
NoScan ==
    [pc |-> "idle", last_seen |-> 0, cutoff |-> 0, client |-> "",
     before_timestamp |-> None, result_comments |-> <<>>, fetches |-> 0,
     failed_fetches |-> 0, returned |-> <<>>, recent |-> {}, status |-> ""]

ScanIdle ==
    /\ mirror = {}
    /\ scan = NoScan

\* the names a caller registers clients under
ClientNames == {"a", "b"}

\* IngestDatabase(default_client_id) on a new file
NewStore(default_client_id) ==
    [default_client_id |-> default_client_id,
     clients |-> <<>>, search |-> {}, ingest_comments |-> {}, key_value |-> {},
     new |-> <<>>, failed |-> FALSE]

NoStoreRet == [op |-> "", name |-> None, client |-> None, id |-> None, raised |-> None]

StoreIdle ==
    /\ store = NewStore(None)
    /\ store_ret = NoStoreRet
    /\ handed = [n \in ClientNames |-> {}]

\* the comments a test builds: RedditObject(id, subreddit, link_id), a link_id
\* being a fullname (prefix and id) or a bare id
Fullname(prefix, id) == [prefix |-> prefix, id |-> id]
TestComment(id, subreddit, link_id) == [id |-> id, subreddit |-> subreddit, link_id |-> link_id]
TestComments ==
    {TestComment("c1", Some("s"), Some(Fullname("t3", "x"))),
     TestComment("c2", None, None),
     TestComment("c3", Some("r"), Some(Fullname("", "x")))}

\* random_id of the k-th reply made; the six random characters are taken not
\* to repeat
random_id(k) == IF k = 1 THEN "n1" ELSE IF k = 2 THEN "n2" ELSE IF k = 3 THEN "n3" ELSE "n4"

\* the identifiers of the objects a run can hold
ObjectIds == {c.id : c \in TestComments} \cup {random_id(k) : k \in 1..4}

\* reddit_test.Reddit(user), and no RedditObject with a parent or a child yet
NewDouble ==
    [all_comments |-> {}, self_comments |-> <<>>, subreddits |-> {},
     locked_threads |-> {}, children |-> [i \in ObjectIds |-> <<>>],
     parent |-> [i \in ObjectIds |-> None], replies |-> 0]

NoDoubleRet == [op |-> "", comment |-> None, id |-> None, value |-> None]

DoubleIdle ==
    /\ double = NewDouble
    /\ double_ret = NoDoubleRet

OtherIdle ==
    /\ ScanIdle
    /\ StoreIdle
    /\ DoubleIdle
    /\ lib_outcome = ""

Init ==
    /\ impl \in {"reddit", "package"}
    /\ no_post \in BOOLEAN
    /\ op = ""
    /\ stack = <<>>
    /\ ret = NoRet
    /\ slept = 0
    /\ calls = 0
    /\ lib_invoked = {}
    /\ QueueIdle
    /\ PushshiftIdle
    /\ OtherIdle

Next ==
    \/ reply_message
    \/ mark_read
    \/ edit_comment
    \/ delete_comment
    \/ send_message
    \/ reply_comment
    \/ reply_submission
    \/ reply_retrying
    \/ subreddit_exists
    \/ redditor_exists
    \/ quarantine_opt_in
    \/ update_subreddit_wiki_page
    \/ run_function_call
    \/ run_function_sleep
    \/ run_function_return
    \/ run_function_raise

Spec == Init /\ [][Next]_vars

(***************************************************************************)
(* Rate-limit handling of run_function (reddit.py)                         *)
(***************************************************************************)
\* the activation caught a RATELIMIT API error
RateLimited(f) == f.err # <<>> /\ error_type(f.err) = "RATELIMIT"

\* the wait W the error's message states, in seconds: None when nothing parses
ParsedWait(items) ==
    LET at == {i \in 1..Len(items) : items[i].error_type = "RATELIMIT"}
    IN  IF at = {} THEN None
        ELSE LET i == CHOOSE i \in at : \A j \in at : i <= j
                 m == ratelimit_regex_search(items[i].message)
             IN  IF m = None THEN None ELSE Some(WaitSeconds(m[1]))

\* the activation is past its handler's decision
Decided(f) == f.pc \in {"wait", "return", "raise"}

\* C1 as stated: a RATELIMIT error whose parsed wait W fits the budget B
\* (W <= B) makes run_function sleep and retry with the budget B - W.
C1_SleepsParsedWait ==
    \A k \in 1..Len(stack) :
        LET f == stack[k]
            W == ParsedWait(f.err)
        IN  (impl = "reddit" /\ RateLimited(f) /\ W # None /\ Decided(f)
                /\ W[1] <= f.retry_seconds)
            => /\ f.slept # None
               /\ f.retry_with = Some(f.retry_seconds - W[1])

\* C1 amended: with S = W + 11 (get_ratelimit_seconds adds 1, run_function adds
\* 10), a RATELIMIT error with S < B makes run_function sleep S seconds and then
\* call run_function once more, for the same function, with the budget B - S.
C1_SleepsPaddedWait ==
    \A k \in 1..Len(stack) :
        LET f == stack[k]
            W == ParsedWait(f.err)
        IN  (impl = "reddit" /\ RateLimited(f) /\ W # None
                /\ W[1] + 11 < f.retry_seconds)
            => /\ f.pc # "return" \/ f.retry_with # None
               /\ f.seconds = Some(W[1] + 11)
               /\ Decided(f) =>
                    /\ f.slept = Some(W[1] + 11)
                    /\ f.retry_with = Some(f.retry_seconds - (W[1] + 11))
               /\ f.pc = "wait" =>
                    /\ k < Len(stack)
                    /\ stack[k + 1].retry_seconds = f.retry_seconds - (W[1] + 11)
                    /\ stack[k + 1].function = f.function

\* C1 witness: a parsed wait of 20 s under a budget of 32 s has been slept as
\* 31 s and the retry, with 1 s of budget left, has made its call.
C1_Witness ==
    /\ impl = "reddit"
    /\ Len(stack) = 2
    /\ RateLimited(stack[1])
    /\ ParsedWait(stack[1].err) = Some(20)
    /\ stack[1].retry_seconds = 32
    /\ stack[1].pc = "wait"
    /\ slept = 31
    /\ stack[2].retry_seconds = 1
    /\ stack[2].pc = "return"
    /\ calls = 2

\* C2: a RATELIMIT error whose parsed wait exceeds the budget (always so for the
\* default budget 0) is not slept and not retried: the activation returns
\* (None, RATELIMIT) having called the wrapped function once.
C2_NoRetryBeyondBudget ==
    \A k \in 1..Len(stack) :
        LET f == stack[k]
            W == ParsedWait(f.err)
        IN  (impl = "reddit" /\ RateLimited(f) /\ W # None
                /\ (W[1] > f.retry_seconds \/ f.retry_seconds = 0))
            => /\ f.pc = "return"
               /\ f.result = Some("RATELIMIT")
               /\ f.output = None
               /\ f.slept = None
               /\ f.retry_with = None
               /\ k = Len(stack)
               /\ calls = k
               /\ k = 1 => slept = 0

\* C2 witness: a parsed wait of 50 s under a budget of 30 s, given up on.
C2_Witness ==
    /\ impl = "reddit"
    /\ Len(stack) = 1
    /\ RateLimited(stack[1])
    /\ ParsedWait(stack[1].err) = Some(50)
    /\ stack[1].retry_seconds = 30
    /\ stack[1].pc = "return"

\* C3 as stated: a RATELIMIT error from which no wait can be parsed makes
\* run_function call the wrapped function once more with budget 0, without
\* sleeping, and return normally: it never ends in the TypeError of None + 10.
C3_RetriesOnceWithoutBudget ==
    \A k \in 1..Len(stack) :
        LET f == stack[k]
        IN  (impl = "reddit" /\ RateLimited(f) /\ ParsedWait(f.err) = None)
            => /\ f.exc # "TypeError"
               /\ f.pc # "sleep"
               /\ f.pc \in {"wait", "return"} =>
                    (f.slept = None /\ f.retry_with = Some(0))

\* C4 as stated: an API error whose identifier names a ReturnType is returned as
\* that code and never raised, any other identifier is re-raised; Forbidden
\* gives FORBIDDEN, IndexError QUARANTINED, no exception SUCCESS.  (Activations
\* that retried are left out: what they raise may be the retry's error.)
C4_ErrorsBecomeCodes ==
    \A k \in 1..Len(stack) :
        LET f == stack[k]
        IN  (f.pc \in {"return", "raise"} /\ f.retry_with = None)
            => CASE f.did = "APIException" ->
                      IF error_type(f.err) \in ReturnTypeNames(impl)
                      THEN f.pc = "return" /\ f.result = Some(error_type(f.err))
                      ELSE f.pc = "raise" /\ f.exc = "APIException"
                 [] f.did = "Forbidden" ->
                      f.pc = "return" /\ f.result = Some("FORBIDDEN")
                 [] f.did = "IndexError" ->
                      f.pc = "return" /\ f.result = Some("QUARANTINED")
                 [] f.did = "returns" ->
                      f.pc = "return" /\ f.result = Some("SUCCESS")
                 [] OTHER -> TRUE

(***************************************************************************)
(* Dry-run mode                                                            *)
(***************************************************************************)
\* C5 as stated: with no_post set no facade operation invokes a mutating call
\* of the library.
C5_DryRunInvokesNothing ==
    no_post => lib_invoked = {}

\* C6 as stated: with no_post set, reply_message, reply_comment,
\* reply_submission, send_message and edit_comment each report SUCCESS.
C6_DryRunReportsSuccess ==
    (no_post /\ ret.op \in {"reply_message", "reply_comment", "reply_submission",
                            "send_message", "edit_comment"})
    => ret.raised = None /\ ret.value = Some("SUCCESS")

(***************************************************************************)
(* Queue, the bounded recency set                                          *)
(***************************************************************************)
Range(l) == {l[i] : i \in 1..Len(l)}

\* put with pop() for pop(0): the newest entry is evicted
put_evicts_newest(l, s, n, item) ==
    IF Len(l) >= n
    THEN LET removed_item == l[Len(l)]
         IN  [list |-> Append(SubSeq(l, 1, Len(l) - 1), item),
              set |-> (s \ {removed_item}) \cup {item}]
    ELSE [list |-> Append(l, item), set |-> s \cup {item}]

\* put without self.set.remove(removed_item)
put_keeps_member(l, s, n, item) ==
    IF Len(l) >= n
    THEN [list |-> Append(Tail(l), item), set |-> s \cup {item}]
    ELSE [list |-> Append(l, item), set |-> s \cup {item}]

\* Queue.put on a queue with list l, set s and max_size n
put(l, s, n, item) ==
    IF Len(l) >= n
    THEN LET removed_item == Head(l)
             rest == Tail(l)
         IN  [list |-> Append(rest, item),
              set |-> (IF removed_item \notin s THEN s ELSE s \ {removed_item})
                        \cup {item}]
    ELSE [list |-> Append(l, item), set |-> s \cup {item}]

\* Queue.contains
contains(item) == item \in set

Items == 1..MaxItem

QueuePut ==
    /\ Len(puts) < MaxPuts
    /\ \E item \in Items :
         LET q == put(list, set, max_size, item)
         IN  /\ list' = q.list
             /\ set' = q.set
             /\ puts' = Append(puts, item)
    /\ UNCHANGED <<max_size, adapter_vars, pushshift_vars, other_vars>>

QueueInit ==
    /\ max_size \in 1..MaxCapacity
    /\ list = <<>>
    /\ set = {}
    /\ puts = <<>>
    /\ AdapterIdle
    /\ PushshiftIdle
    /\ OtherIdle

QueueNext == QueuePut

QueueSpec == QueueInit /\ [][QueueNext]_vars

\* the last n of the items put
LastPuts(n) ==
    {puts[i] : i \in {j \in 1..Len(puts) : j > Len(puts) - n}}

\* the n most recent distinct items put: every item with fewer than n distinct
\* items put after its last put
RecentDistinct(n) ==
    {x \in Range(puts) :
        LET last == CHOOSE i \in 1..Len(puts) :
                        puts[i] = x /\ \A j \in 1..Len(puts) : puts[j] = x => j <= i
        IN  Cardinality({puts[j] : j \in (last + 1)..Len(puts)}) < n}

\* no item was put while it was among the last n items put, that is, while the
\* sequence still held it
NoRecentRepeat(n) ==
    \A i, j \in 1..Len(puts) : (i < j /\ j - i <= n) => puts[i] # puts[j]

\* C7 as stated: once M >= N items have been put, contains is true of exactly
\* the N most recent distinct items put, for every sequence of puts.
C7_HoldsRecentDistinct ==
    Len(puts) >= max_size =>
        \A x \in Items : contains(x) <=> x \in RecentDistinct(max_size)

\* C7 amended: for every sequence of puts in which no item is put again while
\* it is among the last N items put, once M >= N items have been put contains
\* is true of exactly the last N items put and false of every earlier one.
C7_HoldsLastPuts ==
    (NoRecentRepeat(max_size) /\ Len(puts) >= max_size) =>
        /\ Cardinality(LastPuts(max_size)) = max_size
        /\ \A x \in Items : contains(x) <=> x \in LastPuts(max_size)

\* C7 witness: more items than the capacity were put without a repeat and the
\* oldest is no longer contained.
C7_Witness ==
    /\ max_size >= 2
    /\ Len(puts) > max_size
    /\ NoRecentRepeat(max_size)
    /\ ~contains(puts[1])
    /\ contains(puts[Len(puts)])

\* C8 as stated: an item put stays contained until N distinct items have been
\* put after it, for every sequence of puts.
C8_StaysUntilNLater ==
    \A i \in 1..Len(puts) :
        Cardinality({puts[j] : j \in (i + 1)..Len(puts)}) < max_size
            => contains(puts[i])

\* C8 amended: in a sequence of puts in which no item is put again while it is
\* among the last N items put, an item is contained right after its put and as
\* long as fewer than N items were put after it, and is no longer contained
\* once N items were put after its last put.
C8_StaysUntilNLaterNoRepeat ==
    NoRecentRepeat(max_size) =>
        \A i \in 1..Len(puts) :
            /\ Len(puts) - i < max_size => contains(puts[i])
            /\ (/\ Len(puts) - i >= max_size
                /\ \A j \in (i + 1)..Len(puts) : puts[j] # puts[i])
               => ~contains(puts[i])

\* C8 witness: without a repeat, an item with N - 1 items put after it is still
\* contained and the item put just before it has been evicted.
C8_Witness ==
    /\ max_size >= 2
    /\ NoRecentRepeat(max_size)
    /\ Len(puts) = max_size + 1
    /\ contains(puts[2])
    /\ ~contains(puts[1])

\* C9 as stated: after any sequence of puts the membership set holds exactly the
\* elements of the sequence, and the sequence holds at most N identifiers.
C9_SetIsList ==
    /\ set = Range(list)
    /\ Len(list) <= max_size

\* C9 amended: after any sequence of puts the sequence holds at most N
\* identifiers and every member of the set is in the sequence; the set holds
\* exactly the elements of the sequence when no item was put again while it was
\* among the last N items put.
C9_SetWithinList ==
    /\ Len(list) <= max_size
    /\ set \subseteq Range(list)
    /\ NoRecentRepeat(max_size) => set = Range(list)

\* C9 witness: a full sequence after an eviction, set and sequence agreeing.
C9_Witness ==
    /\ max_size >= 2
    /\ Len(puts) > max_size
    /\ NoRecentRepeat(max_size)
    /\ Len(list) = max_size
    /\ set = Range(list)
    /\ puts[1] \notin set

(***************************************************************************)
(* PushshiftClient and the choice of endpoint (__init__.py)                *)
(***************************************************************************)
\* what one HTTP GET can come back with: status 200 and a data array (here the
\* created_utc of each comment), status 200 and a body without one, another
\* status, or an exception of requests
Response(status, data) == [status |-> status, data |-> data]

\* get_comments that leaves the failure counter alone
get_comments_uncounted(c, o) ==
    CASE o.status = "ok" ->
            [client |-> [c EXCEPT !.failures = 0,
                                  !.failures_threshold = InitialThreshold],
             comments |-> Some(o.data)]
      [] o.status = "bad_body" ->
            [client |-> [c EXCEPT !.failures = 0,
                                  !.failures_threshold = InitialThreshold],
             comments |-> None]
      [] OTHER ->
            [client |-> c, comments |-> None]

\* PushshiftClient.get_comments: the client after the request and the comments
\* returned (None with an error message)
get_comments(c, o) ==
    CASE o.status = "ok" ->
            [client |-> [c EXCEPT !.failures = 0,
                                  !.failures_threshold = InitialThreshold],
             comments |-> Some(o.data)]
      [] o.status = "bad_body" ->
            [client |-> [c EXCEPT !.failures = 1,
                                  !.failures_threshold = InitialThreshold],
             comments |-> None]
      [] OTHER ->
            [client |-> [c EXCEPT !.failures = @ + 1], comments |-> None]

\* PushshiftClient.check_lag at time t
check_lag(c, o, t) ==
    LET r == get_comments(c, o)
    IN  IF r.comments = None \/ r.comments[1] = <<>>
        THEN [r.client EXCEPT !.lag_checked = Some(t),
                              !.latest = IF @ = None THEN Some(t) ELSE @]
        ELSE [r.client EXCEPT !.latest = Some(r.comments[1][1]),
                              !.lag_checked = Some(t)]

max(a, b) == IF a >= b THEN a ELSE b

\* PushshiftClient.lag_seconds; times are whole seconds, so round() changes nothing
lag_seconds(c) ==
    IF c.lag_checked = None \/ c.latest = None THEN 0
    ELSE max(c.lag_checked[1] - c.latest[1], 0)

\* PushshiftClient.failed
failed(c) == c.failures > 0

\* get_pushshift_client with the primary endpoint asked first
get_pushshift_client_prod_first(type, prod, beta) ==
    CASE type = "PROD" -> "PROD"
      [] type = "BETA" -> "BETA"
      [] OTHER ->
          IF failed(prod) \/ failed(beta)
          THEN IF lag_seconds(prod) < FailedLagLimit THEN "PROD"
               ELSE IF lag_seconds(beta) < FailedLagLimit THEN "BETA"
               ELSE IF lag_seconds(prod) < lag_seconds(beta) THEN "PROD"
               ELSE "BETA"
          ELSE IF lag_seconds(beta) < BetaLagLimit THEN "BETA"
          ELSE IF lag_seconds(prod) < lag_seconds(beta) THEN "PROD"
          ELSE "BETA"

\* get_pushshift_client without the preference for a beta endpoint under two
\* minutes of lag
get_pushshift_client_lower_lag(type, prod, beta) ==
    CASE type = "PROD" -> "PROD"
      [] type = "BETA" -> "BETA"
      [] OTHER ->
          IF failed(prod) \/ failed(beta)
          THEN IF lag_seconds(beta) < FailedLagLimit THEN "BETA"
               ELSE IF lag_seconds(prod) < FailedLagLimit THEN "PROD"
               ELSE IF lag_seconds(prod) < lag_seconds(beta) THEN "PROD"
               ELSE "BETA"
          ELSE IF lag_seconds(prod) < lag_seconds(beta) THEN "PROD"
          ELSE "BETA"

\* Reddit.get_pushshift_client: the client_type of the endpoint returned
get_pushshift_client(type, prod, beta) ==
    CASE type = "PROD" -> "PROD"
      [] type = "BETA" -> "BETA"
      [] type = "AUTO" ->
          IF failed(prod) \/ failed(beta)
          THEN IF lag_seconds(beta) < FailedLagLimit THEN "BETA"
               ELSE IF lag_seconds(prod) < FailedLagLimit THEN "PROD"
               ELSE IF lag_seconds(prod) < lag_seconds(beta) THEN "PROD"
               ELSE "BETA"
          ELSE IF lag_seconds(beta) < BetaLagLimit THEN "BETA"
          ELSE IF lag_seconds(prod) < lag_seconds(beta) THEN "PROD"
          ELSE "BETA"
      [] OTHER -> "PROD"

\* Reddit.get_active_clients
get_active_clients(type) ==
    CASE type = "PROD" -> {"PROD"}
      [] type = "BETA" -> {"BETA"}
      [] OTHER -> {"PROD", "BETA"}

\* how far behind the clock the newest comment of a lag probe can be (a
\* negative lag: the comment's timestamp is ahead of the clock)
Lags == {-5, 90, 120, 600, 900}

\* what a lag probe at time t can come back with
Probes(t) ==
    {Response("ok", <<t - d>>) : d \in Lags}
    \cup {Response("ok", <<>>), Response("bad_body", <<>>),
          Response("bad_status", <<>>), Response("timeout", <<>>)}

\* the lag check of one endpoint is due
due(c, force) ==
    force \/ c.lag_checked = None \/ now - RecheckSeconds > c.lag_checked[1]

\* Reddit.check_pushshift_lag(force)
check_pushshift_lag ==
    /\ \E force \in BOOLEAN, oprod \in Probes(now), obeta \in Probes(now) :
         LET probe(name, o) ==
                 IF name \in get_active_clients(client_type) /\ due(clients[name], force)
                 THEN check_lag(clients[name], o, now)
                 ELSE clients[name]
             after == [PROD |-> probe("PROD", oprod), BETA |-> probe("BETA", obeta)]
         IN  /\ after.PROD.failures <= MaxFailures
             /\ after.BETA.failures <= MaxFailures
             /\ after # clients
             /\ clients' = after
    /\ selected' = ""
    /\ UNCHANGED <<client_type, now, adapter_vars, queue_vars, other_vars>>

\* the caller asks for the endpoint to use
GetPushshiftClient ==
    /\ selected' = get_pushshift_client(client_type, clients.PROD, clients.BETA)
    /\ UNCHANGED <<clients, client_type, now, adapter_vars, queue_vars, other_vars>>

\* the clock moves in steps of this many seconds
TickSeconds == 130

\* time passes
Tick ==
    /\ now + TickSeconds <= TickSeconds * MaxTicks
    /\ now' = now + TickSeconds
    /\ UNCHANGED <<clients, client_type, selected, adapter_vars, queue_vars, other_vars>>

PushshiftInit ==
    /\ clients = [PROD |-> NewClient, BETA |-> NewClient]
    /\ client_type \in {"PROD", "BETA", "AUTO"}
    /\ now = 0
    /\ selected = ""
    /\ AdapterIdle
    /\ QueueIdle
    /\ OtherIdle

PushshiftNext ==
    \/ check_pushshift_lag
    \/ GetPushshiftClient
    \/ Tick

PushshiftSpec == PushshiftInit /\ [][PushshiftNext]_vars

\* the endpoint with the lower lag; either when the lags are equal
LowerLag == 
    IF lag_seconds(clients.PROD) < lag_seconds(clients.BETA) THEN {"PROD"}
    ELSE IF lag_seconds(clients.BETA) < lag_seconds(clients.PROD) THEN {"BETA"}
    ELSE {"PROD", "BETA"}

\* the endpoints whose lag is under 10 minutes
UnderLimit ==
    {n \in {"PROD", "BETA"} : lag_seconds(clients[n]) < 600}

\* a choice was made in mode auto with a failed endpoint
ChosenAfterFailure ==
    /\ client_type = "AUTO"
    /\ selected # ""
    /\ clients.PROD.failures > 0 \/ clients.BETA.failures > 0

\* C10 as stated: in mode auto with a failed endpoint, the one endpoint with lag
\* under 10 minutes is returned, and when both or neither are under 10 minutes
\* the one with the lower lag.
C10_LowerLagWhenBothUnder ==
    ChosenAfterFailure =>
        IF Cardinality(UnderLimit) = 1 THEN selected \in UnderLimit
        ELSE selected \in LowerLag

\* C10 amended: in mode auto with a failed endpoint, beta is returned when its
\* lag is under 10 minutes, whatever the primary's lag; otherwise the primary
\* when its lag is under 10 minutes; and when neither is under 10 minutes the
\* endpoint with the lower lag, beta when the lags are equal.
C10_BetaFirstWhenUnder ==
    ChosenAfterFailure =>
        IF "BETA" \in UnderLimit THEN selected = "BETA"
        ELSE IF "PROD" \in UnderLimit THEN selected = "PROD"
        ELSE /\ selected \in LowerLag
             /\ lag_seconds(clients.PROD) = lag_seconds(clients.BETA)
                    => selected = "BETA"

\* C10 witness: both endpoints under 10 minutes, the primary with the lower lag
\* and a failure counted, and beta was returned.
C10_Witness ==
    /\ ChosenAfterFailure
    /\ UnderLimit = {"PROD", "BETA"}
    /\ lag_seconds(clients.PROD) < lag_seconds(clients.BETA)
    /\ selected = "BETA"

\* a choice was made in mode auto while neither endpoint has a failure counted
ChosenUnfailed ==
    /\ client_type = "AUTO"
    /\ selected # ""
    /\ clients.PROD.failures = 0
    /\ clients.BETA.failures = 0

\* C11: in mode auto with no failed endpoint, beta is returned when its lag is
\* under 2 minutes, otherwise the endpoint with the lower lag; in the modes
\* primary-only and beta-only that endpoint is returned whatever the lags and
\* the failure counts are.
C11_BetaUnderTwoMinutesElseLowerLag ==
    /\ ChosenUnfailed =>
          IF lag_seconds(clients.BETA) < 120 THEN selected = "BETA"
          ELSE selected \in LowerLag
    /\ client_type = "PROD" /\ selected # "" => selected = "PROD"
    /\ client_type = "BETA" /\ selected # "" => selected = "BETA"

\* C11 witness: no failure counted, beta 90 seconds behind and the primary
\* not behind at all, and beta was returned.
C11_Witness ==
    /\ ChosenUnfailed
    /\ lag_seconds(clients.BETA) = 90
    /\ lag_seconds(clients.PROD) < 90
    /\ selected = "BETA"

\* mode auto, no failure counted, beta 2 minutes or more behind and the primary
\* less: the primary was returned
C11_PrimaryWhenBetaLags ==
    /\ ChosenUnfailed
    /\ lag_seconds(clients.BETA) >= 120
    /\ lag_seconds(clients.PROD) < lag_seconds(clients.BETA)
    /\ selected = "PROD"

\* a single-endpoint mode returned its endpoint although it has failures counted
\* and lags 10 minutes or more
C11_FixedModeDespiteFailures ==
    /\ client_type \in {"PROD", "BETA"}
    /\ selected = client_type
    /\ clients[client_type].failures > 0
    /\ lag_seconds(clients[client_type]) >= 600

(***************************************************************************)
(* Backfill scan: Reddit.get_keyword_comments                              *)
(***************************************************************************)
\* the first page asks for the comments of the last hour (get_url: after_seconds)
AfterSeconds == 3600

\* created_utc of the comment with identifier i: 100, 90, 80, 70, ...
created_utc(i) == 110 - 10 * i

\* the identifiers of s, newest comment first
RECURSIVE newest_first(_)
newest_first(s) ==
    IF s = {} THEN <<>>
    ELSE LET i == CHOOSE x \in s : \A y \in s : created_utc(y) <= created_utc(x)
         IN  <<i>> \o newest_first(s \ {i})

\* PushshiftClient.get_url and the mirror's answer to it: the newest `limit`
\* comments older than `before`, or of the last hour when no `before` is given
search(limit, before, t) ==
    LET matching == {i \in mirror :
                        IF before # None THEN created_utc(i) < before[1]
                        ELSE created_utc(i) > t - AfterSeconds}
        newest == newest_first(matching)
    IN  SubSeq(newest, 1, IF Len(newest) < limit THEN Len(newest) ELSE limit)

\* the for loop of get_keyword_comments over one page, from comment k on
RECURSIVE scan_page(_, _, _, _, _)
scan_page(comments, k, last_seen, before_timestamp, result_comments) ==
    IF k > Len(comments)
    THEN [found_seen |-> FALSE, before_timestamp |-> before_timestamp,
          result_comments |-> result_comments]
    ELSE LET comment == comments[k]
         IN  IF last_seen > created_utc(comment)
             THEN [found_seen |-> TRUE,
                   before_timestamp |-> Some(created_utc(comment)),
                   result_comments |-> result_comments]
             ELSE scan_page(comments, k + 1, last_seen, Some(created_utc(comment)),
                            IF contains(comment) THEN result_comments
                            ELSE Append(result_comments, comment))

\* the threshold after a page fetch of get_keyword_comments came back without
\* comments
backoff(c) ==
    IF c.failures >= c.failures_threshold
    THEN [c EXCEPT !.failures_threshold = @ * 2]
    ELSE c

\* the watermarks a caller hands to get_keyword_comments
LastSeens == {65, 85, 90}

\* what the lag probes made by a scan can come back with
ScanProbes(t) ==
    {Response("ok", <<t - 90>>), Response("bad_status", <<>>)}

\* what a page fetch can come back with: the mirror's answer, or a failure
PageOutcomes == {"ok", "bad_body", "bad_status", "timeout"}

\* get_keyword_comments up to its loop: the cold-start second, the lag check of
\* the endpoints that are due, and the choice of the endpoint
get_keyword_comments_call ==
    /\ scan.pc # "paging"
    /\ \E last_seen \in LastSeens, oprod \in ScanProbes(now), obeta \in ScanProbes(now) :
         LET probe(name, o) ==
                 IF name \in get_active_clients(client_type) /\ due(clients[name], FALSE)
                 THEN check_lag(clients[name], o, now)
                 ELSE clients[name]
             after == [PROD |-> probe("PROD", oprod), BETA |-> probe("BETA", obeta)]
         IN  /\ after.PROD.failures <= MaxScanFailures
             /\ after.BETA.failures <= MaxScanFailures
             /\ clients' = after
             /\ scan' = [NoScan EXCEPT
                             !.pc = "paging",
                             !.last_seen = last_seen,
                             !.recent = set,
                             !.cutoff = IF Len(list) = 0 THEN last_seen + 1 ELSE last_seen,
                             !.client = get_pushshift_client(client_type, after.PROD, after.BETA)]
    /\ UNCHANGED <<mirror, client_type, now, selected, adapter_vars, queue_vars, lib_outcome, store_vars, double_vars>>

\* one turn of the while loop of get_keyword_comments: a page fetch and what
\* follows from it
get_keyword_comments_page ==
    /\ scan.pc = "paging"
    /\ \E status \in PageOutcomes :
         LET limit == IF scan.before_timestamp # None THEN NextPageLimit ELSE FirstPageLimit
             o == Response(status, IF status = "ok"
                                   THEN search(limit, scan.before_timestamp, now)
                                   ELSE <<>>)
             r == get_comments(clients[scan.client], o)
             fetched == [scan EXCEPT !.fetches = @ + 1,
                                     !.status = status,
                                     !.failed_fetches = IF status = "ok" THEN @ ELSE @ + 1]
         IN  /\ r.client.failures <= MaxScanFailures
             /\ IF r.comments = None
                THEN /\ clients' = [clients EXCEPT ![scan.client] = backoff(r.client)]
                     /\ scan' = [fetched EXCEPT !.pc = "returned", !.returned = <<>>]
                ELSE /\ clients' = [clients EXCEPT ![scan.client] = r.client]
                     /\ IF Len(r.comments[1]) = 0
                        THEN scan' = [fetched EXCEPT !.pc = "returned", !.returned = <<>>]
                        ELSE LET p == scan_page(r.comments[1], 1, scan.cutoff,
                                                scan.before_timestamp, scan.result_comments)
                             IN  scan' = [fetched EXCEPT
                                             !.before_timestamp = p.before_timestamp,
                                             !.result_comments = p.result_comments,
                                             !.pc = IF p.found_seen THEN "returned" ELSE "paging",
                                             !.returned = IF p.found_seen THEN p.result_comments
                                                          ELSE <<>>]
    /\ UNCHANGED <<mirror, client_type, now, selected, adapter_vars, queue_vars, lib_outcome, store_vars, double_vars>>

\* Reddit.mark_keyword_comment_processed, by a caller working through the
\* comments a scan returned
mark_keyword_comment_processed ==
    /\ scan.pc = "returned"
    /\ Len(puts) < MaxMarked
    /\ \E k \in 1..Len(scan.returned) :
         LET q == put(list, set, max_size, scan.returned[k])
         IN  /\ list' = q.list
             /\ set' = q.set
             /\ puts' = Append(puts, scan.returned[k])
    /\ UNCHANGED <<max_size, scan_vars, adapter_vars, pushshift_vars, lib_outcome, store_vars, double_vars>>

KeywordInit ==
    /\ mirror \in SUBSET Items
    /\ scan = NoScan
    /\ clients = [PROD |-> NewClient, BETA |-> NewClient]
    /\ client_type \in {"PROD", "BETA", "AUTO"}
    /\ now = AfterSeconds + 85
    /\ selected = ""
    /\ list = <<>>
    /\ set = {}
    /\ max_size = MaxCapacity
    /\ puts = <<>>
    /\ AdapterIdle
    /\ lib_outcome = ""
    /\ StoreIdle
    /\ DoubleIdle

KeywordNext ==
    \/ get_keyword_comments_call
    \/ get_keyword_comments_page
    \/ mark_keyword_comment_processed

KeywordSpec == KeywordInit /\ [][KeywordNext]_vars

\* a scan has returned and every one of its page fetches succeeded
ScanSucceeded == scan.pc = "returned" /\ scan.failed_fetches = 0

\* the comments of the mirror newer than the watermark handed in and not in the
\* recency set at the time of the call
NewerUnseen ==
    {i \in mirror : created_utc(i) > scan.last_seen /\ i \notin scan.recent}

\* C12: when every page fetch succeeds, get_keyword_comments returns all the
\* comments of the mirror strictly newer than last_seen that are not in the
\* recency set, and no comment as old as last_seen or older and none of the
\* recency set.
C12_ReturnsAllNewerUnseen ==
    ScanSucceeded => Range(scan.returned) = NewerUnseen

\* the mirror holds the comments of 100 and 90 only, the watermark is 65, both
\* page fetches succeeded, and the scan returned nothing
C12_LostAtEndOfData ==
    /\ ScanSucceeded
    /\ mirror = {1, 2}
    /\ scan.last_seen = 65
    /\ scan.fetches = 2
    /\ scan.result_comments = <<1, 2>>
    /\ scan.returned = <<>>

\* with a recency set in use, a comment as old as the watermark was returned
C12_ReturnedAtWatermark ==
    /\ ScanSucceeded
    /\ \E k \in 1..Len(scan.returned) : created_utc(scan.returned[k]) = scan.last_seen

\* the scan of the comments of 100, 90, 80 and 70 with the watermark 85
\* returned those of 100 and 90
C12_ReturnedNewer ==
    /\ ScanSucceeded
    /\ mirror = {1, 2, 3, 4}
    /\ scan.last_seen = 85
    /\ scan.recent = {}
    /\ scan.returned = <<1, 2>>

\* a page fetch of the scan has failed in this step
FetchFailed == scan.pc = "paging" /\ scan'.failed_fetches = scan.failed_fetches + 1

ThresholdShape(t) == \E k \in 0..MaxScanFailures : t = InitialThreshold * 2^k

\* the page fetch of this step went to endpoint n
Fetched(n) == scan.pc = "paging" /\ scan.client = n

\* C19: per endpoint, every failed request (non-200 status or exception) adds
\* exactly one to the failure counter, every HTTP 200 sets the counter to 0 and
\* the threshold to 5, the threshold doubles only when a backfill page fetch
\* fails with the counter at or over the threshold, and the threshold is always
\* 5 times a power of two.
C19_CountsEveryFailure ==
    [][\A n \in {"PROD", "BETA"} :
          LET c == clients[n]
              d == clients'[n]
              status == scan'.status
          IN  /\ Fetched(n) /\ status # "ok" => d.failures = c.failures + 1
              /\ Fetched(n) /\ status \in {"ok", "bad_body"} =>
                    d.failures = 0 /\ d.failures_threshold = 5
              /\ d.failures_threshold # c.failures_threshold =>
                    \/ d.failures_threshold = 5
                    \/ /\ Fetched(n) /\ status # "ok"
                       /\ d.failures >= c.failures_threshold
                       /\ d.failures_threshold = 2 * c.failures_threshold
              /\ ThresholdShape(d.failures_threshold)]_vars

\* the same with a 200 whose body does not parse counted as the code counts it:
\* the counter ends at 1 and the threshold at 5
C19_CountsFrom200 ==
    [][\A n \in {"PROD", "BETA"} :
          LET c == clients[n]
              d == clients'[n]
              status == scan'.status
          IN  /\ Fetched(n) /\ status \in {"bad_status", "timeout"} =>
                    d.failures = c.failures + 1
              /\ Fetched(n) /\ status = "ok" =>
                    d.failures = 0 /\ d.failures_threshold = 5
              /\ Fetched(n) /\ status = "bad_body" =>
                    d.failures = 1 /\ d.failures_threshold = 5
              /\ d.failures_threshold # c.failures_threshold =>
                    \/ d.failures_threshold = 5
                    \/ /\ Fetched(n) /\ status # "ok"
                       /\ d.failures >= c.failures_threshold
                       /\ d.failures_threshold = 2 * c.failures_threshold
              /\ ThresholdShape(d.failures_threshold)]_vars

\* the threshold of an endpoint has doubled
C19_ThresholdDoubled ==
    \E n \in {"PROD", "BETA"} : clients[n].failures_threshold = 10

\* the forced fetch of the operation just finished went as o
Fetch(name, o) == ret.op = name /\ lib_outcome = o

\* C14 as stated: subreddit_exists and redditor_exists each return false when
\* the forced fetch fails with not-found, redirect, forbidden or bad-request,
\* true when it succeeds, and let any other exception propagate.
C14_BothFalseOnFourFailures ==
    \A name \in {"subreddit_exists", "redditor_exists"}, o \in FetchOutcomes :
        Fetch(name, o) =>
            IF o \in {"NotFound", "Redirect", "Forbidden", "BadRequest"}
            THEN ret.value = Some("False") /\ ret.raised = None
            ELSE IF o = "ok" THEN ret.value = Some("True") /\ ret.raised = None
            ELSE ret.value = None /\ ret.raised = Some(o)

\* C14 amended: subreddit_exists returns false when the forced fetch fails with
\* not-found, redirect, forbidden or bad-request; redditor_exists returns false
\* when it fails with not-found only; each returns true when the fetch succeeds
\* and lets any other exception propagate, which for redditor_exists includes
\* redirect, forbidden and bad-request.
C14_RedditorFalseOnNotFoundOnly ==
    \A name \in {"subreddit_exists", "redditor_exists"}, o \in FetchOutcomes :
        Fetch(name, o) =>
            LET caught == IF name = "subreddit_exists"
                          THEN {"NotFound", "Redirect", "Forbidden", "BadRequest"}
                          ELSE {"NotFound"}
            IN  IF o \in caught THEN ret.value = Some("False") /\ ret.raised = None
                ELSE IF o = "ok" THEN ret.value = Some("True") /\ ret.raised = None
                ELSE ret.value = None /\ ret.raised = Some(o)

\* C14 witness: the fetch of redditor_exists failed with forbidden and the
\* exception left the operation.
C14_Witness ==
    /\ Fetch("redditor_exists", "Forbidden")
    /\ ret.raised = Some("Forbidden")

\* the fetch of subreddit_exists failed with forbidden and false was returned
C14_SubredditForbidden ==
    /\ Fetch("subreddit_exists", "Forbidden")
    /\ ret.value = Some("False")

\* C15 as stated: quarantine_opt_in returns false on any failure of the opt-in
\* call other than forbidden and true otherwise, also when the call fails with
\* forbidden and when it succeeds; it never raises.
C15_TrueOnForbidden ==
    ret.op = "quarantine_opt_in" =>
        /\ ret.raised = None
        /\ ret.value = IF lib_outcome \in {"", "ok", "Forbidden"}
                       THEN Some("True") ELSE Some("False")

\* C15 amended: quarantine_opt_in returns false on any failure of the opt-in
\* call, forbidden included, and true when the call succeeds and when, in
\* dry-run mode, it is not made; it never raises.
C15_FalseOnAnyFailure ==
    ret.op = "quarantine_opt_in" =>
        /\ ret.raised = None
        /\ ret.value = IF lib_outcome \in {"", "ok"}
                       THEN Some("True") ELSE Some("False")

\* C15 witness: the opt-in call failed with forbidden and false was returned.
C15_Witness ==
    /\ ret.op = "quarantine_opt_in"
    /\ lib_outcome = "Forbidden"
    /\ ret.value = Some("False")
    /\ ret.raised = None

(***************************************************************************)
(* The ingest store: IngestDatabase of praw_wrapper/ingest.py              *)
(***************************************************************************)
\* objects added to the session and not yet flushed
PendingClient(name) ==
    [kind |-> "client", name |-> name, client_id |-> 0, search_term |-> "", id |-> ""]
PendingSearch(client_id, search_term) ==
    [kind |-> "search", name |-> None, client_id |-> client_id,
     search_term |-> search_term, id |-> ""]
PendingComment(id, client_id) ==
    [kind |-> "comment", name |-> None, client_id |-> client_id, search_term |-> "", id |-> id]
DeletedComment(id, client_id) ==
    [kind |-> "delete", name |-> None, client_id |-> client_id, search_term |-> "", id |-> id]

\* the names of the rows of the clients table
RowNames(st) == {st.clients[k] : k \in 1..Len(st.clients)}

\* the INSERT or DELETE of one pending object; the constraints of the tables
\* (name NOT NULL and unique, the primary key of ingest_comments, the unique
\* pair of search) make it fail
flush_object(st, o) ==
    CASE o.kind = "client" ->
            IF o.name = None \/ o.name[1] \in RowNames(st)
            THEN [st EXCEPT !.failed = TRUE]
            ELSE [st EXCEPT !.clients = Append(@, o.name[1])]
      [] o.kind = "search" ->
            IF <<o.client_id, o.search_term>> \in st.search
            THEN [st EXCEPT !.failed = TRUE]
            ELSE [st EXCEPT !.search = @ \cup {<<o.client_id, o.search_term>>}]
      [] o.kind = "comment" ->
            IF <<o.id, o.client_id>> \in st.ingest_comments
            THEN [st EXCEPT !.failed = TRUE]
            ELSE [st EXCEPT !.ingest_comments = @ \cup {<<o.id, o.client_id>>}]
      [] OTHER ->
            [st EXCEPT !.ingest_comments = @ \ {<<o.id, o.client_id>>}]

\* Session.flush: the pending objects in the order they were added. A failed
\* statement raises out of the flush and leaves the session unusable until a
\* rollback, which IngestDatabase never issues.
RECURSIVE flush(_)
flush(st) ==
    IF st.failed \/ st.new = <<>> THEN st
    ELSE LET r == flush_object(st, Head(st.new))
         IN  IF r.failed THEN [r EXCEPT !.new = <<>>]
             ELSE flush([r EXCEPT !.new = Tail(st.new)])

\* the row of the clients table with this name, 0 when there is none
client_by_name(st, name) ==
    IF \E k \in 1..Len(st.clients) : st.clients[k] = name
    THEN CHOOSE k \in 1..Len(st.clients) : st.clients[k] = name
    ELSE 0

\* IngestDatabase.get_or_add_client: the store afterwards, the client returned
\* (the number of its row, which a pending Client gets at the next flush), its
\* id attribute at the time of the return, and the exception raised. The query
\* flushes the session first.
get_or_add_client(st, client_name) ==
    IF client_name = None /\ st.default_client_id = None
    THEN [store |-> st, client |-> None, id |-> None, raised |-> None]
    ELSE LET flushed == flush(st)
             found == IF client_name # None THEN client_by_name(flushed, client_name[1])
                      ELSE IF st.default_client_id[1] <= Len(flushed.clients)
                           THEN st.default_client_id[1] ELSE 0
         IN  IF flushed.failed
             THEN [store |-> flushed, client |-> None, id |-> None,
                   raised |-> Some("IntegrityError")]
             ELSE IF found # 0
             THEN [store |-> flushed, client |-> Some(found), id |-> Some(found),
                   raised |-> None]
             ELSE [store |-> [flushed EXCEPT !.new = Append(@, PendingClient(client_name))],
                   client |-> Some(Len(flushed.clients) + 1), id |-> None,
                   raised |-> None]

StoreRet(name, raised) ==
    [op |-> name, name |-> None, client |-> None, id |-> None, raised |-> raised]

\* the client names a caller passes: a name, or None for the default client
NameArguments == {Some(n) : n \in ClientNames} \cup {None}

GetOrAddClient ==
    /\ Len(store.clients) + Len(store.new) < MaxRows
    /\ \E client_name \in NameArguments :
         LET r == get_or_add_client(store, client_name)
         IN  /\ store' = r.store
             /\ store_ret' = [op |-> "get_or_add_client", name |-> client_name,
                              client |-> r.client, id |-> r.id, raised |-> r.raised]
             /\ handed' = IF client_name # None /\ r.client # None
                          THEN [handed EXCEPT ![client_name[1]] = @ \cup {r.client[1]}]
                          ELSE handed
    /\ UNCHANGED <<adapter_vars, queue_vars, pushshift_vars, scan_vars, lib_outcome, double_vars>>

\* IngestDatabase.register_search; client.id of the query is read after the
\* flush the query starts with
register_search ==
    /\ Len(store.clients) + Len(store.new) + 1 < MaxRows
    /\ \E client_name \in NameArguments, search_term \in {"term"} :
         LET r == get_or_add_client(store, client_name)
             flushed == flush(r.store)
         IN  /\ handed' = IF client_name # None /\ r.client # None
                          THEN [handed EXCEPT ![client_name[1]] = @ \cup {r.client[1]}]
                          ELSE handed
             /\ IF r.raised # None
                THEN store' = r.store /\ store_ret' = StoreRet("register_search", r.raised)
                ELSE IF r.client = None
                THEN /\ store' = r.store
                     /\ store_ret' = StoreRet("register_search", Some("AttributeError"))
                ELSE IF flushed.failed
                THEN /\ store' = flushed
                     /\ store_ret' = StoreRet("register_search", Some("IntegrityError"))
                ELSE /\ store' = IF <<r.client[1], search_term>> \in flushed.search
                                 THEN flushed
                                 ELSE [flushed EXCEPT !.new =
                                          Append(@, PendingSearch(r.client[1], search_term))]
                     /\ store_ret' = StoreRet("register_search", None)
    /\ UNCHANGED <<adapter_vars, queue_vars, pushshift_vars, scan_vars, lib_outcome, double_vars>>

\* the comments a caller stores
CommentIds == {"c1"}

\* IngestDatabase.add_comment: Session.add does not touch the database
add_comment ==
    /\ Len(store.new) < MaxPending
    /\ \E id \in CommentIds :
         /\ store' = [store EXCEPT !.new = Append(@, PendingComment(id, 1))]
         /\ store_ret' = StoreRet("add_comment", None)
    /\ UNCHANGED <<handed, adapter_vars, queue_vars, pushshift_vars, scan_vars, lib_outcome, double_vars>>

\* IngestDatabase.delete_comment of a comment get_comments has returned
delete_comment_row ==
    /\ ~store.failed
    /\ Len(store.new) < MaxPending
    /\ \E c \in store.ingest_comments :
         /\ store' = [store EXCEPT !.new = Append(@, DeletedComment(c[1], c[2]))]
         /\ store_ret' = StoreRet("delete_comment", None)
    /\ UNCHANGED <<handed, adapter_vars, queue_vars, pushshift_vars, scan_vars, lib_outcome, double_vars>>

\* an operation that is one query or one commit: get_all_searches,
\* get_comments, get_keystore, commit, close, and backup, which closes and
\* opens the same file again. (Each is followed when it changes something: a
\* session with pending objects, or the first call in a row.)
Flushing(name) ==
    /\ LET flushed == flush(store)
       IN  /\ store' = flushed
           /\ store_ret' = StoreRet(name, IF store.failed THEN Some("PendingRollbackError")
                                          ELSE IF flushed.failed THEN Some("IntegrityError")
                                          ELSE None)
    /\ UNCHANGED <<handed, adapter_vars, queue_vars, pushshift_vars, scan_vars, lib_outcome, double_vars>>

get_all_searches ==
    /\ store.new # <<>> \/ store_ret.op # "get_all_searches"
    /\ Flushing("get_all_searches")

get_stored_comments ==
    /\ store.new # <<>> \/ store_ret.op # "get_comments"
    /\ Flushing("get_comments")

get_keystore ==
    /\ store.new # <<>> \/ store_ret.op # "get_keystore"
    /\ Flushing("get_keystore")

commit ==
    /\ store.new # <<>> \/ store_ret.op # "commit"
    /\ Flushing("commit")

close ==
    /\ store.new # <<>> \/ store_ret.op # "close"
    /\ Flushing("close")

backup ==
    /\ store.new # <<>> \/ store_ret.op # "backup"
    /\ Flushing("backup")

\* IngestDatabase.save_keystore: Session.merge looks the key up, which flushes
save_keystore ==
    /\ \E key \in {"k"} :
         LET flushed == flush(store)
         IN  /\ store' = IF flushed.failed THEN flushed
                         ELSE [flushed EXCEPT !.key_value = @ \cup {key}]
             /\ store_ret' = StoreRet("save_keystore",
                                      IF store.failed THEN Some("PendingRollbackError")
                                      ELSE IF flushed.failed THEN Some("IntegrityError")
                                      ELSE None)
             /\ store' # store \/ store_ret' # store_ret
    /\ UNCHANGED <<handed, adapter_vars, queue_vars, pushshift_vars, scan_vars, lib_outcome, double_vars>>

IngestInit ==
    /\ \E default_client_id \in {None, Some(1)} : store = NewStore(default_client_id)
    /\ store_ret = NoStoreRet
    /\ handed = [n \in ClientNames |-> {}]
    /\ AdapterIdle
    /\ QueueIdle
    /\ PushshiftIdle
    /\ ScanIdle
    /\ lib_outcome = ""
    /\ DoubleIdle

IngestNext ==
    \/ GetOrAddClient
    \/ register_search
    \/ add_comment
    \/ delete_comment_row
    \/ get_all_searches
    \/ get_stored_comments
    \/ get_keystore
    \/ save_keystore
    \/ commit
    \/ close
    \/ backup

IngestSpec == IngestInit /\ [][IngestNext]_vars

\* get_or_add_client was just called with a name
AskedByName == store_ret.op = "get_or_add_client" /\ store_ret.name # None

\* the clients named n: the rows of the table and the Client pending in the session
Named(n) ==
    {k \in 1..Len(store.clients) : store.clients[k] = n}
    \cup {Len(store.clients) + k : k \in {j \in 1..Len(store.new) :
                                            /\ store.new[j].kind = "client"
                                            /\ store.new[j].name = Some(n)}}

\* C16: get_or_add_client(name), called any number of times and in any
\* interleaving with the other operations of the store, returns the same client
\* for the same name and leaves exactly one client with that name.
C16_SameClientPerName ==
    /\ \A n \in ClientNames : Cardinality(handed[n]) <= 1
    /\ AskedByName =>
          /\ store_ret.raised = None
          /\ store_ret.client # None
          /\ Cardinality(Named(store_ret.name[1])) = 1

\* as long as no flush has failed, a name has at most one client and each call
\* for the name has returned that one
C16_SameClientWhileUsable ==
    /\ \A n \in ClientNames : Cardinality(handed[n]) <= 1
    /\ AskedByName /\ ~store.failed =>
          /\ store_ret.raised = None
          /\ store_ret.client # None
          /\ Named(store_ret.name[1]) = handed[store_ret.name[1]]
          /\ Cardinality(Named(store_ret.name[1])) = 1

\* a store with default client 1 and no such row was asked for the default
\* client, and the call for a name that followed raised
C16_RaisedAfterNamelessClient ==
    /\ AskedByName
    /\ store_ret.raised = Some("IntegrityError")
    /\ store.default_client_id = Some(1)
    /\ store.ingest_comments = {}
    /\ Len(store.clients) <= 1

\* a second call for a name returned the client of the first, by now a row
C16_ReturnedAgain ==
    /\ AskedByName
    /\ store_ret.id # None
    /\ store_ret.client = store_ret.id
    /\ handed[store_ret.name[1]] = {store_ret.id[1]}
    /\ Len(store.clients) = 2

(***************************************************************************)
(* The test double: class Reddit of praw_wrapper/reddit_test.py            *)
(***************************************************************************)
\* id_from_fullname: the fullname without its t<digit>_ prefix
id_from_fullname(fullname) == fullname.id

\* the RedditObject a reply is: no subreddit and no link_id
ReplyObject(k) == TestComment(random_id(k), None, None)

\* the objects a test can hand to the double: the comments it built and the
\* replies made so far, which get_comment returns
Objects == TestComments \cup {ReplyObject(k) : k \in 1..double.replies}

\* list.remove: without the first occurrence of x, the list itself when x is
\* not in it (the ValueError is passed over)
RECURSIVE remove(_, _)
remove(l, x) ==
    IF l = <<>> THEN <<>>
    ELSE IF Head(l) = x THEN Tail(l)
    ELSE <<Head(l)>> \o remove(Tail(l), x)

\* Reddit.add_comment of the double
double_add_comment(d, comment, self_comment) ==
    [d EXCEPT !.all_comments = @ \cup {comment.id},
              !.self_comments = IF self_comment THEN Append(@, comment.id) ELSE @]

\* reply_comment of the double that does not look at locked_threads
double_reply_comment_unlocked(d, comment) ==
    IF comment.subreddit # None /\ comment.subreddit[1] \in d.subreddits
    THEN [double |-> d, id |-> None, value |-> "FORBIDDEN"]
    ELSE IF comment.id \notin d.all_comments
    THEN [double |-> d, id |-> None, value |-> "DELETED_COMMENT"]
    ELSE LET new_comment == ReplyObject(d.replies + 1)
             replied == [d EXCEPT !.replies = @ + 1,
                                  !.parent[new_comment.id] = Some(comment.id),
                                  !.children[comment.id] = Append(@, new_comment.id)]
         IN  [double |-> double_add_comment(replied, new_comment, TRUE),
              id |-> Some(new_comment.id), value |-> "SUCCESS"]

\* Reddit.reply_comment of the double: the double afterwards and the pair
\* returned. subreddits holds the names ban_subreddit was called with, each
\* with is_banned set.
double_reply_comment(d, comment) ==
    IF comment.subreddit # None /\ comment.subreddit[1] \in d.subreddits
    THEN [double |-> d, id |-> None, value |-> "FORBIDDEN"]
    ELSE IF comment.link_id # None /\ id_from_fullname(comment.link_id[1]) \in d.locked_threads
    THEN [double |-> d, id |-> None, value |-> "THREAD_LOCKED"]
    ELSE IF comment.id \notin d.all_comments
    THEN [double |-> d, id |-> None, value |-> "DELETED_COMMENT"]
    ELSE LET new_comment == ReplyObject(d.replies + 1)
             replied == [d EXCEPT !.replies = @ + 1,
                                  !.parent[new_comment.id] = Some(comment.id),
                                  !.children[comment.id] = Append(@, new_comment.id)]
         IN  [double |-> double_add_comment(replied, new_comment, TRUE),
              id |-> Some(new_comment.id), value |-> "SUCCESS"]

\* Reddit.delete_comment of the double
double_delete_comment(d, comment) ==
    LET unparented == [i \in ObjectIds |->
                          IF \E k \in 1..Len(d.children[comment.id]) :
                                 d.children[comment.id][k] = i
                          THEN None ELSE d.parent[i]]
    IN  [d EXCEPT !.all_comments = @ \ {comment.id},
                  !.self_comments = remove(@, comment.id),
                  !.children = IF d.parent[comment.id] # None
                               THEN [@ EXCEPT ![d.parent[comment.id][1]] = remove(@, comment.id)]
                               ELSE @,
                  !.parent = unparented]

DoubleRet(name, comment, id, value) ==
    [op |-> name, comment |-> Some(comment), id |-> id, value |-> value]

test_add_comment ==
    /\ Len(double.self_comments) < MaxSelfComments
    /\ \E comment \in Objects, self_comment \in BOOLEAN :
         /\ double' = double_add_comment(double, comment, self_comment)
         /\ double_ret' = [NoDoubleRet EXCEPT !.op = "add_comment"]
    /\ UNCHANGED <<adapter_vars, queue_vars, pushshift_vars, scan_vars, lib_outcome, store_vars>>

ban_subreddit ==
    /\ \E subreddit_name \in {"s"} :
         /\ double' = [double EXCEPT !.subreddits = @ \cup {subreddit_name}]
         /\ double_ret' = [NoDoubleRet EXCEPT !.op = "ban_subreddit"]
    /\ UNCHANGED <<adapter_vars, queue_vars, pushshift_vars, scan_vars, lib_outcome, store_vars>>

lock_thread ==
    /\ \E thread_id \in {"x"} :
         /\ double' = [double EXCEPT !.locked_threads = @ \cup {thread_id}]
         /\ double_ret' = [NoDoubleRet EXCEPT !.op = "lock_thread"]
    /\ UNCHANGED <<adapter_vars, queue_vars, pushshift_vars, scan_vars, lib_outcome, store_vars>>

test_delete_comment ==
    /\ \E comment \in Objects :
         /\ double' = double_delete_comment(double, comment)
         /\ double_ret' = [NoDoubleRet EXCEPT !.op = "delete_comment", !.value = Some("True")]
    /\ UNCHANGED <<adapter_vars, queue_vars, pushshift_vars, scan_vars, lib_outcome, store_vars>>

test_reply_comment ==
    /\ \E comment \in Objects :
         LET r == double_reply_comment(double, comment)
         IN  /\ r.double.replies <= MaxReplies
             /\ double' = r.double
             /\ double_ret' = DoubleRet("reply_comment", comment.id, r.id, Some(r.value))
    /\ UNCHANGED <<adapter_vars, queue_vars, pushshift_vars, scan_vars, lib_outcome, store_vars>>

DoubleInit ==
    /\ DoubleIdle
    /\ AdapterIdle
    /\ QueueIdle
    /\ PushshiftIdle
    /\ ScanIdle
    /\ StoreIdle
    /\ lib_outcome = ""

DoubleNext ==
    \/ test_add_comment
    \/ ban_subreddit
    \/ lock_thread
    \/ test_delete_comment
    \/ test_reply_comment

DoubleSpec == DoubleInit /\ [][DoubleNext]_vars

\* the comment handed to the reply_comment call this step makes
Replied == CHOOSE c \in Objects : Some(c.id) = double_ret'.comment

\* ban_subreddit has been called for the comment's subreddit
InBannedSubreddit(c) == c.subreddit # None /\ c.subreddit[1] \in double.subreddits

\* lock_thread has been called for the comment's thread
InLockedThread(c) ==
    /\ c.link_id # None
    /\ \E t \in double.locked_threads : c.link_id[1].id = t

\* nothing was recorded in all_comments, self_comments or any list of children
NothingRecorded ==
    /\ double'.all_comments = double.all_comments
    /\ double'.self_comments = double.self_comments
    /\ double'.children = double.children

\* C17: after any sequence of add_comment, ban_subreddit, lock_thread and
\* delete_comment, reply_comment of the test double returns (no id, FORBIDDEN)
\* when the comment's subreddit is banned, otherwise (no id, THREAD_LOCKED)
\* when its thread is locked, otherwise (no id, DELETED_COMMENT) when the
\* comment is not registered or was deleted, and otherwise SUCCESS with a new
\* id, the reply registered, listed as a self comment and made the comment's
\* last child; in the three failure cases nothing is recorded.
C17_DoubleKeepsReplyContract ==
    [][double_ret'.op = "reply_comment" =>
          LET c == Replied
              answer == <<double_ret'.id, double_ret'.value>>
          IN  IF InBannedSubreddit(c)
              THEN answer = <<None, Some("FORBIDDEN")>> /\ NothingRecorded
              ELSE IF InLockedThread(c)
              THEN answer = <<None, Some("THREAD_LOCKED")>> /\ NothingRecorded
              ELSE IF c.id \notin double.all_comments
              THEN answer = <<None, Some("DELETED_COMMENT")>> /\ NothingRecorded
              ELSE /\ double_ret'.value = Some("SUCCESS")
                   /\ double_ret'.id # None
                   /\ double_ret'.id[1] \notin double.all_comments
                   /\ double'.all_comments = double.all_comments \cup {double_ret'.id[1]}
                   /\ double'.self_comments = Append(double.self_comments, double_ret'.id[1])
                   /\ double'.children[c.id] = Append(double.children[c.id], double_ret'.id[1])]_vars

\* C17 witness: c1 was registered and replied to, its thread was then locked,
\* and the next reply_comment on it returned (no id, THREAD_LOCKED).
C17_Witness ==
    /\ double_ret.op = "reply_comment"
    /\ double_ret.comment = Some("c1")
    /\ double_ret.id = None
    /\ double_ret.value = Some("THREAD_LOCKED")
    /\ "c1" \in double.all_comments
    /\ double.children["c1"] = <<"n1">>
    /\ "x" \in double.locked_threads

\* reply_comment on a comment that was registered and then deleted returned
\* (no id, DELETED_COMMENT)
C17_DeletedComment ==
    /\ double_ret.op = "reply_comment"
    /\ double_ret.comment = Some("c2")
    /\ double_ret.value = Some("DELETED_COMMENT")
    /\ "c2" \notin double.all_comments
    /\ double.children["c2"] = <<"n1">>

\* reply_comment on a registered comment of a banned subreddit, its thread
\* locked as well, returned (no id, FORBIDDEN)
C17_BannedSubreddit ==
    /\ double_ret.op = "reply_comment"
    /\ double_ret.comment = Some("c1")
    /\ double_ret.value = Some("FORBIDDEN")
    /\ "c1" \in double.all_comments
    /\ double.locked_threads = {"x"}

\* the least number of seconds a retry is preceded by: a wait of 0 seconds
\* (milliseconds), the 1 get_ratelimit_seconds adds and the 10 run_function adds
LeastSleep == 0 + 1 + 10

\* C18: the rate-limit retry is bounded. Whatever the budget B and the
\* responses, every recursive activation of run_function has a strictly smaller
\* budget than the one that made it, every call but the first is preceded by a
\* sleep of at least 11 seconds, and the seconds slept stay under B, so that
\* fewer than 1 + B / 11 calls of the wrapped function are made; with B = 0
\* nothing is slept and the function is called exactly once.
C18_RetryIsBounded ==
    stack # <<>> =>
        LET B == stack[1].retry_seconds
        IN  /\ \A k \in 1..(Len(stack) - 1) :
                  /\ stack[k + 1].retry_seconds < stack[k].retry_seconds
                  /\ stack[k + 1].retry_seconds > 0
                  /\ stack[k].pc \in {"wait", "return", "raise"}
            /\ Top.pc \in {"call", "sleep", "return", "raise"}
            /\ B - Top.retry_seconds <= slept
            /\ slept = 0 \/ slept < B
            /\ calls >= 1 => LeastSleep * (calls - 1) <= slept
            /\ calls >= Len(stack) - 1
            /\ Top.pc # "call" => calls >= 1
            /\ B = 0 => slept = 0 /\ Len(stack) = 1 /\ calls <= 1

\* C18 witness: under a budget of 45 seconds two waits of 5 seconds were slept
\* as 16 seconds each, and the third call has been made with 13 seconds left.
C18_Witness ==
    /\ Len(stack) = 3
    /\ stack[1].retry_seconds = 45
    /\ stack[2].retry_seconds = 29
    /\ stack[3].retry_seconds = 13
    /\ stack[3].pc = "return"
    /\ slept = 32
    /\ calls = 3

\* C20: when run_function has slept and retried and the retried call succeeds,
\* the activation that retried returns the retried call's output with SUCCESS.
C20_ReturnsRetriedOutcome ==
    [][(/\ Len(stack) > 1
        /\ Top.pc = "return"
        /\ Top.result = Some("SUCCESS")
        /\ Len(stack') = Len(stack) - 1)
       => /\ stack'[Len(stack')].result = Some("SUCCESS")
          /\ stack'[Len(stack')].output = Top.output]_vars

(***************************************************************************)
(* The pair Reddit.reply returns                                           *)
(***************************************************************************)
\* the step hands a pair back from reply, reply_comment or reply_submission
ReplyReturns ==
    /\ ret' # ret
    /\ ret'.op \in ReplyOperations
    /\ ret'.raised = None

\* the wrapped call of this reply returned nothing and raised nothing, and
\* run_function is handing its pair back to reply
ReturnedNothing ==
    /\ op \in ReplyOperations
    /\ Len(stack) = 1
    /\ Top.pc = "return"
    /\ Top.did = "returns"
    /\ Top.output = None

\* C21: whatever the wrapped library call does, the pair reply (and so
\* reply_comment and reply_submission) returns holds an id if and only if its
\* code is SUCCESS; a call that returned nothing without raising gives
\* (None, NOTHING_RETURNED), and (None, SUCCESS) is never returned.
C21_IdIffSuccess ==
    [][/\ ReplyReturns =>
            /\ ret'.id # None <=> ret'.value = Some("SUCCESS")
            /\ ~(ret'.id = None /\ ret'.value = Some("SUCCESS"))
       /\ ReturnedNothing =>
            ret' = [op |-> op, id |-> None,
                    value |-> Some("NOTHING_RETURNED"), raised |-> None]]_vars

\* C21 witness: reply_comment made one library call, which returned nothing,
\* and handed back (None, NOTHING_RETURNED).
C21_Witness ==
    /\ ~no_post
    /\ ret.op = "reply_comment"
    /\ ret.id = None
    /\ ret.value = Some("NOTHING_RETURNED")
    /\ ret.raised = None
    /\ calls = 1
    /\ "reply" \in lib_invoked

\* reply handed back the id of the comment the library made, with SUCCESS
C21_RepliedWithId ==
    /\ ~no_post
    /\ ret.op = "reply_submission"
    /\ ret.id = Some("t1_new")
    /\ ret.value = Some("SUCCESS")
    /\ calls = 1

\* reply slept on a rate limit and called again, and handed back
\* (None, RATELIMIT) whatever the second call did
C21_RetriedWithoutId ==
    /\ ret.op = "reply"
    /\ ret.id = None
    /\ ret.value = Some("RATELIMIT")
    /\ slept > 0
    /\ calls = 2

\* with no_post set reply hands back the placeholder id with SUCCESS, and the
\* library is not called
C21_PlaceholderId ==
    /\ no_post
    /\ ret.op = "reply"
    /\ ret.id = Some("xxxxxx")
    /\ ret.value = Some("SUCCESS")
    /\ calls = 0

====
